---- MODULE Spec2Model ----
(***************************************************************************)
(* Simulation and alarm/condition logic of SampleServer-node-opcua:        *)
(* createOwnServerAddressspaceLogic (event counter, MySeverity, MyVar,     *)
(* MyCondition oscillator, MyVarNonExclusiveLimitAlarm),                   *)
(* createShowCaseMachineToolLogic (CurrentState and MachineryItemState     *)
(* togglers, FeedOverride generator) and isValidUserAsync of user.ts.      *)
(*                                                                         *)
(* Every setInterval callback and every variable setter runs to completion *)
(* on the single JavaScript thread, so each is one atomic action.  Timers  *)
(* of different tasks may fire in any order.                               *)
(***************************************************************************)
EXTENDS Integers, Sequences, FiniteSets, TLC

VARIABLES
    count,      \* `let count: number` shared by the event task and MySeverity
    myValue,    \* `let myValue` served by MyVar's getter
    cond,       \* MyCondition: severity, message, retain, time
    alarm,      \* MyVarNonExclusiveLimitAlarm: the four limits and retain
    clock,      \* wall clock in ms since start-up, as last read by new Date()
    condTicks,  \* number of times the 15000 ms callback has run
    emitted,    \* events raised by the handler that ran last
    op,         \* the handler that ran last: its name, argument and status code
    present,    \* node ids that addressSpace.findNode resolves
    node,       \* stored value of every node that is present
    override,   \* `let override` of the FeedOverride generator
    started,    \* periodic tasks registered with setInterval
    boot,       \* outcome of the two start-up functions
    proc,       \* "running", or "crashed" once an exception escaped a callback
    fuel,       \* handler runs the exploration still allows; -1 is no limit
    userList,   \* the frozen user list read from user.json
    calls       \* the calls of isValidUserAsync made so far

ownVars == <<count, myValue, cond, alarm, clock, condTicks>>

mtVars == <<present, node, override, started, boot>>

userVars == <<userList, calls>>

vars == <<ownVars, emitted, op, mtVars, proc, fuel, userVars>>

\* A callback runs only while the process lives; it uses one unit of fuel
\* where the exploration is limited.
Runs ==
    /\ proc = "running"
    /\ fuel # 0
    /\ fuel' = (IF fuel > 0 THEN fuel - 1 ELSE fuel)

----------------------------------------------------------------------------
(* JavaScript numbers.  count is a double: an OPC UA client may write any  *)
(* Double, NaN included.  Every comparison with NaN is false and every sum *)
(* with NaN is NaN.                                                        *)

Num(n) == [nan |-> FALSE, v |-> n]

NaN == [nan |-> TRUE, v |-> 0]

NumGt(a, b) == ~a.nan /\ ~b.nan /\ a.v > b.v

NumLt(a, b) == ~a.nan /\ ~b.nan /\ a.v < b.v

NumAdd(a, b) == IF a.nan \/ b.nan THEN NaN ELSE Num(a.v + b.v)

----------------------------------------------------------------------------
(* Bounds of the model                                                     *)

MaxCondTicks == 4

\* Doubles an external client writes to MySeverity: below, at and above
\* each end of the range, one step below the ceiling, and NaN.
SeverityWrites == {Num(99), Num(100), Num(975), Num(1000), Num(1001), NaN}

\* Doubles an external client tries to write to MyVar.
MyVarWrites == {Num(0), Num(60)}

\* A timer fires no earlier than its delay and at most MaxJitter ms late.
MaxJitter == 1

\* Nodes the address space may lack.
MaxMissing == 1

\* Callback runs explored where all six tasks interleave.
MaxSteps == 6

\* Entries of the user list and calls of isValidUserAsync.
MaxUsers == 3

MaxCalls == 2

----------------------------------------------------------------------------
(* Literals of the source                                                  *)

CountInit == 100

CountStep == 50

CountCeiling == 1000

CountFloor == 100

SeverityMax == 1000

SeverityMin == 100

MyValueInit == 25

MyValueStep == 1

MyValueCeiling == 60

MyValueFloor == -25

CondInterval == 15000

\* Time elapsed between two runs of the condition callback.
CondDelays == CondInterval .. CondInterval + MaxJitter

CondInitSeverity == 150

CondInitMessage == "MyCondition is Good!"

CondInitRetain == TRUE

\* Mutant of CondTestMessage: the literal compared against differs from the
\* literal written.
CondTestMessage_typo == "MyCondition is good!"

CondTestMessage == "MyCondition is Good!"

CondBadSeverity == 800

CondBadMessage == "MyCondition is Bad!"

CondGoodSeverity == 150

CondGoodMessage == "MyCondition is Good!"

highHighLimit == 50

\* Mutant of highLimit: the value of highHighLimit is given to highLimit.
highLimit_asHighHigh == highHighLimit

highLimit == 40

lowLimit == 20

lowLowLimit == -5

AlarmRetain == TRUE

----------------------------------------------------------------------------
(* Records                                                                 *)

NoArg == Num(0)

Op(name, arg, status) == [name |-> name, arg |-> arg, status |-> status]

\* RaiseEventData of the event task: message `Severity at: ${count}` and
\* severity count.
eventData(c) ==
    [type |-> "DemoEventType",
     message |-> [text |-> "Severity at: ", n |-> c],
     severity |-> c]

\* new ConditionSnapshot(cond, ...) raised with renewEventId = true.
snap(c) ==
    [type |-> "ownConditionEventType",
     message |-> c.message,
     severity |-> c.severity,
     retain |-> c.retain,
     time |-> c.time,
     renewEventId |-> TRUE]

----------------------------------------------------------------------------
(* The address space: node ids the two start-up functions and the tick     *)
(* handlers look up with addressSpace.findNode                             *)

SoftwareTypeId == 15106

ActiveProgramNameId == 55186

ActiveProgramNumberInListId == 55185

CurrentStateId == 55188

CurrentStateNumberId == 55190

MachineryItemStateId == 6011

MachineryItemStateNumberId == 6012

FeedOverrideId == 55229

SpindleOverrideId == 55238

SpindleOverrideRangeId == 55240

Channel1Id == 55233

AllNodes ==
    {SoftwareTypeId, ActiveProgramNameId, ActiveProgramNumberInListId,
     CurrentStateId, CurrentStateNumberId, MachineryItemStateId,
     MachineryItemStateNumberId, FeedOverrideId, SpindleOverrideId,
     SpindleOverrideRangeId, Channel1Id}

AllTasks == {"event", "ramp", "cond", "program", "machinery", "override"}

\* coerceLocalizedText(text) and coerceNodeId(n): a numeric node id of
\* namespace 0.
coerceLocalizedText(t) == [text |-> t]

coerceNodeId(n) == [namespace |-> 0, value |-> n]

\* Texts MachineryItemState may hold in the loaded nodeset.
MachineryTexts == {"Executing", "NotExecuting", "OutOfService"}

\* Values of the nodes as the nodeset loads them, before any start-up code:
\* only the text of MachineryItemState is read before it is written.
Nodeset(ids, mtext) ==
    [id \in ids |->
        IF id \in {CurrentStateId, MachineryItemStateId}
        THEN coerceLocalizedText(IF id = MachineryItemStateId THEN mtext ELSE "")
        ELSE IF id \in {CurrentStateNumberId, MachineryItemStateNumberId}
        THEN coerceNodeId(0)
        ELSE 0]

\* handle?.setValueFromSource(v): nothing happens when findNode gave no
\* handle.
setIfFound(n, id, v) ==
    IF id \in DOMAIN n THEN [n EXCEPT ![id] = v] ELSE n

OverrideInit == 50

----------------------------------------------------------------------------
(* State after createOwnServerAddressspaceLogic has returned               *)

condCreated ==
    [severity |-> CondInitSeverity,
     message |-> CondInitMessage,
     retain |-> CondInitRetain,
     time |-> 0]

alarmCreated ==
    [highHighLimit |-> highHighLimit,
     highLimit |-> highLimit,
     lowLimit |-> lowLimit,
     lowLowLimit |-> lowLowLimit,
     retain |-> AlarmRetain]

InitOwn ==
    /\ count = Num(CountInit)
    /\ myValue = MyValueInit
    /\ cond = condCreated
    /\ alarm = alarmCreated
    /\ clock = 0
    /\ condTicks = 0
    /\ emitted = << >>
    /\ op = Op("init", NoArg, "None")

\* Start-up lines of createShowCaseMachineToolLogic that write a node, in
\* program order, each through handle?.setValueFromSource.
mtStartupWrites(n) ==
    LET n1 == setIfFound(n, ActiveProgramNameId, "Program_1")
        n2 == setIfFound(n1, ActiveProgramNumberInListId, 1)
        n3 == setIfFound(n2, CurrentStateId, coerceLocalizedText("Running"))
        n4 == setIfFound(n3, SpindleOverrideId, 100)
        n5 == setIfFound(n4, SpindleOverrideRangeId, [low |-> 60, high |-> 100])
    IN  setIfFound(n5, Channel1Id, 1)

\* State after both start-up functions have returned on the complete
\* address space; no call of isValidUserAsync has been made.
InitServer ==
    /\ InitOwn
    /\ present = AllNodes
    /\ node = mtStartupWrites(Nodeset(AllNodes, "Executing"))
    /\ override = OverrideInit
    /\ started = AllTasks
    /\ boot = [own |-> "returned", mt |-> "returned", software |-> TRUE]
    /\ proc = "running"

InitReady ==
    /\ InitServer
    /\ userList = << >>
    /\ calls = << >>

Init == InitReady /\ fuel = -1

----------------------------------------------------------------------------
(* setInterval(..., 60000): the event task                                 *)

countStep(c) ==
    LET c1 == NumAdd(c, Num(CountStep))
    IN  IF NumGt(c1, Num(CountCeiling)) THEN Num(CountFloor) ELSE c1

EventTick ==
    /\ Runs /\ "event" \in started
    /\ count' = countStep(count)
    /\ emitted' = << eventData(count') >>
    /\ op' = Op("eventTick", NoArg, "None")
    /\ UNCHANGED <<myValue, cond, alarm, clock, condTicks>>
    /\ UNCHANGED <<mtVars, proc, userVars>>

(* MySeverity: value.get and value.set                                     *)

mySeverityGet == count

\* Mutant of outOfRange: the test of the upper end is forgotten.
outOfRange_lowOnly(w) == NumLt(w, Num(SeverityMin))

\* Mutant of outOfRange: both ends are excluded from the range.
outOfRange_exclusive(w) ==
    \/ ~NumLt(w, Num(SeverityMax))
    \/ ~NumGt(w, Num(SeverityMin))

outOfRange(w) == NumGt(w, Num(SeverityMax)) \/ NumLt(w, Num(SeverityMin))

mySeveritySetStatus(w) == IF outOfRange(w) THEN "BadOutOfRange" ELSE "Good"

mySeveritySetCount(w, c) == IF outOfRange(w) THEN c ELSE w

MySeveritySet(w) ==
    /\ Runs
    /\ count' = mySeveritySetCount(w, count)
    /\ emitted' = << >>
    /\ op' = Op("mySeveritySet", w, mySeveritySetStatus(w))
    /\ UNCHANGED <<myValue, cond, alarm, clock, condTicks>>
    /\ UNCHANGED <<mtVars, proc, userVars>>

----------------------------------------------------------------------------
(* MyVar: value.get only, and setInterval(..., 1000): the ramp             *)

myVarGet == myValue

\* Mutant of myValueStep: the sign of the floor is lost.
myValueStep_unsigned(v) ==
    LET v1 == v + MyValueStep
    IN  IF v1 >= MyValueCeiling THEN -MyValueFloor ELSE v1

\* Mutant of myValueStep: the reset tests > instead of >=.
myValueStep_strict(v) ==
    LET v1 == v + MyValueStep
    IN  IF v1 > MyValueCeiling THEN MyValueFloor ELSE v1

myValueStep(v) ==
    LET v1 == v + MyValueStep
    IN  IF v1 >= MyValueCeiling THEN MyValueFloor ELSE v1

RampTick ==
    /\ Runs /\ "ramp" \in started
    /\ myValue' = myValueStep(myValue)
    /\ emitted' = << >>
    /\ op' = Op("rampTick", NoArg, "None")
    /\ UNCHANGED <<count, cond, alarm, clock, condTicks>>
    /\ UNCHANGED <<mtVars, proc, userVars>>

\* Mutant of myVarSetValue: a set function that stores the written value.
myVarSetValue_store(w, v) == IF w.nan THEN v ELSE w.v

\* The value binding of MyVar has no set function: a write request reaches
\* no code of the program and is refused.
myVarSetValue(w, v) == v

MyVarSet(w) ==
    /\ Runs
    /\ myValue' = myVarSetValue(w, myValue)
    /\ emitted' = << >>
    /\ op' = Op("myVarSet", w, "BadNotWritable")
    /\ UNCHANGED <<count, cond, alarm, clock, condTicks>>
    /\ UNCHANGED <<mtVars, proc, userVars>>

----------------------------------------------------------------------------
(* setInterval(..., 15000): the MyCondition oscillator                     *)

\* Mutant of condFlip: the Good -> Bad branch forgets to refresh the time.
condFlip_staleTime(c, now) ==
    IF c.message = CondTestMessage
    THEN [c EXCEPT !.severity = CondBadSeverity,
                   !.message = CondBadMessage]
    ELSE [c EXCEPT !.severity = CondGoodSeverity,
                   !.message = CondGoodMessage,
                   !.time = now]

\* Mutant of condFlip: the Bad -> Good branch restores the message and
\* leaves the severity of the Bad state.
condFlip_staleSeverity(c, now) ==
    IF c.message = CondTestMessage
    THEN [c EXCEPT !.severity = CondBadSeverity,
                   !.message = CondBadMessage,
                   !.time = now]
    ELSE [c EXCEPT !.message = CondGoodMessage,
                   !.time = now]

\* Mutant of condFlip: the Bad -> Good branch clears retain.
condFlip_clearRetain(c, now) ==
    IF c.message = CondTestMessage
    THEN [c EXCEPT !.severity = CondBadSeverity,
                   !.message = CondBadMessage,
                   !.time = now]
    ELSE [c EXCEPT !.severity = CondGoodSeverity,
                   !.message = CondGoodMessage,
                   !.retain = FALSE,
                   !.time = now]

condFlip(c, now) ==
    IF c.message = CondTestMessage
    THEN [c EXCEPT !.severity = CondBadSeverity,
                   !.message = CondBadMessage,
                   !.time = now]
    ELSE [c EXCEPT !.severity = CondGoodSeverity,
                   !.message = CondGoodMessage,
                   !.time = now]

\* Mutant of CondTick: the snapshot is taken before the fields are updated.
CondTick_snapBefore(d) ==
    /\ Runs /\ "cond" \in started
    /\ condTicks < MaxCondTicks
    /\ clock' = clock + d
    /\ cond' = condFlip(cond, clock')
    /\ condTicks' = condTicks + 1
    /\ emitted' = << snap(cond) >>
    /\ op' = Op("condTick", NoArg, "None")
    /\ UNCHANGED <<count, myValue, alarm>>
    /\ UNCHANGED <<mtVars, proc, userVars>>

CondTick(d) ==
    /\ Runs /\ "cond" \in started
    /\ condTicks < MaxCondTicks
    /\ clock' = clock + d
    /\ cond' = condFlip(cond, clock')
    /\ condTicks' = condTicks + 1
    /\ emitted' = << snap(cond') >>
    /\ op' = Op("condTick", NoArg, "None")
    /\ UNCHANGED <<count, myValue, alarm>>
    /\ UNCHANGED <<mtVars, proc, userVars>>

----------------------------------------------------------------------------
(* MyVarNonExclusiveLimitAlarm: the band of a value of the input node      *)
(* against the four limits: below lowlow, [lowlow, low), [low, high],      *)
(* (high, highhigh], above highhigh.                                       *)

classify(v, a) ==
    IF v < a.lowLowLimit THEN "LowLow"
    ELSE IF v < a.lowLimit THEN "Low"
    ELSE IF v <= a.highLimit THEN "Normal"
    ELSE IF v <= a.highHighLimit THEN "High"
    ELSE "HighHigh"

\* inputNode: myVar
alarmBand == classify(myVarGet, alarm)

----------------------------------------------------------------------------
(* The two start-up functions.  Neither awaits anything, so each runs to   *)
(* completion in one step.                                                 *)

\* An exception that leaves a callback or rejects a start-up promise is
\* handled, if at all, outside these files: the process dies or lives on.
Escapes(thrown) ==
    IF thrown THEN proc' \in {"running", "crashed"} ELSE proc' = proc

\* createOwnServerAddressspaceLogic: softwareType?.instantiate(...) is
\* skipped when ns=DI;i=15106 is not found; the three timers are registered
\* either way.
StartOwn ==
    /\ Runs
    /\ boot.own = "pending"
    /\ boot' = [boot EXCEPT !.own = "returned",
                            !.software = SoftwareTypeId \in present]
    /\ count' = Num(CountInit)
    /\ myValue' = MyValueInit
    /\ cond' = condCreated
    /\ alarm' = alarmCreated
    /\ started' = started \cup {"event", "ramp", "cond"}
    /\ emitted' = << >>
    /\ op' = Op("createOwnServerAddressspaceLogic", NoArg, "None")
    /\ UNCHANGED <<clock, condTicks, present, node, override, proc, userVars>>

\* Mutant of StartMT: every start-up lookup is made without `?.`, so the
\* first node not found throws before a timer is registered.
StartMT_strict ==
    /\ Runs
    /\ boot.mt = "pending"
    /\ LET thrown == \E id \in AllNodes \ {SoftwareTypeId} : id \notin present
       IN  /\ node' = (IF thrown THEN node ELSE mtStartupWrites(node))
           /\ started' = (IF thrown THEN started
                          ELSE started \cup {"program", "machinery", "override"})
           /\ boot' = [boot EXCEPT !.mt = IF thrown THEN "threw" ELSE "returned"]
           /\ op' = Op("createShowCaseMachineToolLogic", NoArg,
                       IF thrown THEN "TypeError" ELSE "None")
           /\ Escapes(thrown)
    /\ override' = OverrideInit
    /\ emitted' = << >>
    /\ UNCHANGED <<ownVars, present, userVars>>

\* createShowCaseMachineToolLogic: the three setInterval calls come before
\* channel1.setValueFromSource, the one start-up write without `?.`.
StartMT ==
    /\ Runs
    /\ boot.mt = "pending"
    /\ node' = mtStartupWrites(node)
    /\ override' = OverrideInit
    /\ started' = started \cup {"program", "machinery", "override"}
    /\ LET thrown == Channel1Id \notin present
       IN  /\ boot' = [boot EXCEPT !.mt = IF thrown THEN "threw" ELSE "returned"]
           /\ op' = Op("createShowCaseMachineToolLogic", NoArg,
                       IF thrown THEN "TypeError" ELSE "None")
           /\ Escapes(thrown)
    /\ emitted' = << >>
    /\ UNCHANGED <<ownVars, present, userVars>>

----------------------------------------------------------------------------
(* setInterval(..., 10000): CurrentState Running <-> Ended                 *)

\* state?.readValue().value.value.text === "Running": undefined, hence not
\* equal, when the state node is not found.
programIsRunning(n) ==
    CurrentStateId \in DOMAIN n /\ n[CurrentStateId].text = "Running"

\* The node values when the callback ends; stateNumber.setValueFromSource
\* is not reached through `?.` and throws when the number node is not found.
\* Mutant of programToggle: the number is written to the number node of
\* MachineryItemState.
programToggle_otherNumber(n) ==
    LET n1 == setIfFound(n, CurrentStateId,
                  coerceLocalizedText(IF programIsRunning(n) THEN "Ended"
                                      ELSE "Running"))
    IN  setIfFound(n1, MachineryItemStateNumberId,
                   coerceNodeId(IF programIsRunning(n) THEN 2 ELSE 1))

programToggle(n) ==
    IF programIsRunning(n)
    THEN LET n1 == setIfFound(n, CurrentStateId, coerceLocalizedText("Ended"))
         IN  IF CurrentStateNumberId \in DOMAIN n1
             THEN [n1 EXCEPT ![CurrentStateNumberId] = coerceNodeId(2)]
             ELSE n1
    ELSE LET n1 == setIfFound(n, CurrentStateId, coerceLocalizedText("Running"))
         IN  IF CurrentStateNumberId \in DOMAIN n1
             THEN [n1 EXCEPT ![CurrentStateNumberId] = coerceNodeId(1)]
             ELSE n1

ProgramTick ==
    /\ Runs /\ "program" \in started
    /\ node' = programToggle(node)
    /\ LET thrown == CurrentStateNumberId \notin present
       IN  /\ op' = Op("programTick", NoArg, IF thrown THEN "TypeError" ELSE "None")
           /\ Escapes(thrown)
    /\ emitted' = << >>
    /\ UNCHANGED <<ownVars, present, override, started, boot, userVars>>

(* setInterval(..., 10000): MachineryItemState Executing <-> NotExecuting  *)

machineryIsExecuting(n) ==
    MachineryItemStateId \in DOMAIN n /\ n[MachineryItemStateId].text = "Executing"

\* Mutant of machineryToggle: the two state numbers are swapped.
machineryToggle_swapped(n) ==
    IF machineryIsExecuting(n)
    THEN LET n1 == setIfFound(n, MachineryItemStateId,
                              coerceLocalizedText("NotExecuting"))
         IN  IF MachineryItemStateNumberId \in DOMAIN n1
             THEN [n1 EXCEPT ![MachineryItemStateNumberId] = coerceNodeId(1)]
             ELSE n1
    ELSE LET n1 == setIfFound(n, MachineryItemStateId,
                              coerceLocalizedText("Executing"))
         IN  IF MachineryItemStateNumberId \in DOMAIN n1
             THEN [n1 EXCEPT ![MachineryItemStateNumberId] = coerceNodeId(2)]
             ELSE n1

machineryToggle(n) ==
    IF machineryIsExecuting(n)
    THEN LET n1 == setIfFound(n, MachineryItemStateId,
                              coerceLocalizedText("NotExecuting"))
         IN  IF MachineryItemStateNumberId \in DOMAIN n1
             THEN [n1 EXCEPT ![MachineryItemStateNumberId] = coerceNodeId(2)]
             ELSE n1
    ELSE LET n1 == setIfFound(n, MachineryItemStateId,
                              coerceLocalizedText("Executing"))
         IN  IF MachineryItemStateNumberId \in DOMAIN n1
             THEN [n1 EXCEPT ![MachineryItemStateNumberId] = coerceNodeId(1)]
             ELSE n1

MachineryTick ==
    /\ Runs /\ "machinery" \in started
    /\ node' = machineryToggle(node)
    /\ LET thrown == MachineryItemStateNumberId \notin present
       IN  /\ op' = Op("machineryTick", NoArg, IF thrown THEN "TypeError" ELSE "None")
           /\ Escapes(thrown)
    /\ emitted' = << >>
    /\ UNCHANGED <<ownVars, present, override, started, boot, userVars>>

----------------------------------------------------------------------------
(* setInterval(..., 1000): the FeedOverride generator                      *)

OverrideStep == 5

OverrideCeiling == 120

OverrideFloor == 50

\* Mutant of overrideStep: the reset tests >= instead of >.
overrideStep_early(o) ==
    LET o1 == o + OverrideStep
    IN  IF o1 >= OverrideCeiling THEN OverrideFloor ELSE o1

overrideStep(o) ==
    LET o1 == o + OverrideStep
    IN  IF o1 > OverrideCeiling THEN OverrideFloor ELSE o1

\* The counter is stepped before the lookup; feedOverride.setValueFromSource
\* throws when the node is not found.
OverrideTick ==
    /\ Runs /\ "override" \in started
    /\ override' = overrideStep(override)
    /\ LET thrown == FeedOverrideId \notin present
       IN  /\ node' = setIfFound(node, FeedOverrideId, override')
           /\ op' = Op("overrideTick", NoArg, IF thrown THEN "TypeError" ELSE "None")
           /\ Escapes(thrown)
    /\ emitted' = << >>
    /\ UNCHANGED <<ownVars, present, started, boot, userVars>>

\* Values an external client writes to the stored FeedOverride variable.
FeedOverrideWrites == {0, 200}

\* FeedOverride holds a stored value, so a client's write replaces it.
FeedOverrideWrite(w) ==
    /\ Runs
    /\ FeedOverrideId \in present
    /\ node' = [node EXCEPT ![FeedOverrideId] = w]
    /\ op' = Op("feedOverrideWrite", Num(w), "Good")
    /\ emitted' = << >>
    /\ UNCHANGED <<ownVars, present, override, started, boot, proc, userVars>>

----------------------------------------------------------------------------
(* user.ts: getUser and isValidUserAsync                                   *)

Usernames == {"alice", "bob"}

\* The password a caller presents.
Passwords == {"pw1"}

\* The password field of a user entry: the bcrypt hash of some password, or
\* a string that is no bcrypt hash.
Hashes ==
    {[valid |-> TRUE, of |-> "pw1"], [valid |-> TRUE, of |-> "pw2"],
     [valid |-> FALSE, of |-> ""]}

Users == [username : Usernames, password : Hashes]

RECURSIVE SeqsUpTo(_, _)
SeqsUpTo(S, n) ==
    IF n = 0 THEN {<< >>}
    ELSE LET shorter == SeqsUpTo(S, n - 1)
         IN  shorter \cup {Append(q, x) : q \in shorter, x \in S}

\* users.filter(item => item.username === username)
filterByName(username, users) ==
    SelectSeq(users, LAMBDA item : item.username = username)

\* Mutant of getUser: the test for more than one match is left out.
getUser_first(username, users) ==
    LET user == filterByName(username, users)
    IN  IF Len(user) > 0 THEN << user[1] >> ELSE << >>

\* getUser: null when more than one entry matches, else user[0], which is
\* undefined when none matches.  << >> stands for null and undefined.
getUser(username, users) ==
    LET user == filterByName(username, users)
    IN  IF Len(user) > 1 THEN << >>
        ELSE IF Len(user) = 0 THEN << >> ELSE << user[1] >>

\* What bcrypt's compare(password, hash, cb) hands its callback: (no error,
\* match) for a hash; for a string that is no hash (no error, false) or an
\* error with no result.
compareOutcomes(password, hash) ==
    IF hash.valid
    THEN {[err |-> FALSE,
           result |-> IF hash.of = password THEN "true" ELSE "false"]}
    ELSE {[err |-> FALSE, result |-> "false"],
          [err |-> TRUE, result |-> "undefined"]}

NoOutcome == [err |-> FALSE, result |-> "none"]

\* isValidUserAsync(username, password, callback) up to its return: the
\* callback is called at once when getUser gives no user, else compare is
\* started.
IsValidUserAsync(username, password) ==
    /\ Runs
    /\ Len(calls) < MaxCalls
    /\ LET user == getUser(username, userList)
       IN  calls' = Append(calls,
               [username |-> username,
                password |-> password,
                user |-> user,
                outcome |-> NoOutcome,
                cb |-> IF Len(user) > 0 THEN << >>
                       ELSE << [err |-> "null", isAuthorized |-> FALSE] >>])
    /\ op' = Op("isValidUserAsync", NoArg, "None")
    /\ emitted' = << >>
    /\ UNCHANGED <<ownVars, mtVars, proc, userList>>

\* The callback compare was given: callback(null, true) when result === true
\* and callback(null, false) otherwise.
compareCallback(o) ==
    IF o.result = "true"
    THEN [err |-> "null", isAuthorized |-> TRUE]
    ELSE [err |-> "null", isAuthorized |-> FALSE]

CompareDone(i) ==
    /\ Runs
    /\ i \in DOMAIN calls
    /\ Len(calls[i].user) > 0
    /\ calls[i].outcome = NoOutcome
    /\ \E o \in compareOutcomes(calls[i].password, calls[i].user[1].password) :
        calls' = [calls EXCEPT ![i].outcome = o,
                               ![i].cb = Append(@, compareCallback(o))]
    /\ op' = Op("compareCallback", NoArg, "None")
    /\ emitted' = << >>
    /\ UNCHANGED <<ownVars, mtVars, proc, userList>>

\* userList is read from user.json when the module is loaded and frozen.
InitUser ==
    /\ InitServer
    /\ fuel = -1
    /\ userList \in SeqsUpTo(Users, MaxUsers)
    /\ calls = << >>

NextUser ==
    \/ \E u \in Usernames, p \in Passwords : IsValidUserAsync(u, p)
    \/ \E i \in 1 .. MaxCalls : CompareDone(i)

SpecUser == InitUser /\ [][NextUser]_vars

\* bcrypt calls back every comparison it was given.
SpecUserFair == SpecUser /\ \A i \in 1 .. MaxCalls : WF_vars(CompareDone(i))

----------------------------------------------------------------------------

Next ==
    \/ EventTick
    \/ \E w \in SeverityWrites : MySeveritySet(w)
    \/ RampTick
    \/ \E w \in MyVarWrites : MyVarSet(w)
    \/ \E d \in CondDelays : CondTick(d)

Spec == Init /\ [][Next]_vars

\* The ramp's timer keeps firing: setInterval repeats for as long as the
\* process lives.
SpecFairRamp == Spec /\ WF_vars(RampTick)

----------------------------------------------------------------------------
(* The machine-tool logic from before start-up, on an address space that   *)
(* lacks at most MaxMissing of the nodes the code looks up.                *)

InitMT ==
    /\ InitOwn
    /\ \E missing \in SUBSET AllNodes :
        /\ Cardinality(missing) <= MaxMissing
        /\ present = AllNodes \ missing
    /\ \E mtext \in MachineryTexts : node = Nodeset(present, mtext)
    /\ override = OverrideInit
    /\ started = {}
    /\ boot = [own |-> "pending", mt |-> "pending", software |-> FALSE]
    /\ proc = "running"
    /\ fuel = -1
    /\ userList = << >>
    /\ calls = << >>

NextMT ==
    \/ StartOwn
    \/ StartMT
    \/ ProgramTick
    \/ MachineryTick
    \/ OverrideTick
    \/ \E w \in FeedOverrideWrites : FeedOverrideWrite(w)

SpecMT == InitMT /\ [][NextMT]_vars

----------------------------------------------------------------------------
(* The six periodic tasks together, from the state after start-up, for     *)
(* MaxSteps callback runs in any order.                                    *)

InitAll == InitReady /\ fuel = MaxSteps

NextAll ==
    \/ EventTick
    \/ RampTick
    \/ \E d \in CondDelays : CondTick(d)
    \/ ProgramTick
    \/ MachineryTick
    \/ OverrideTick

SpecAll == InitAll /\ [][NextAll]_vars

----------------------------------------------------------------------------
(* Claims                                                                  *)

\* Values of a claim's range test, written as the claim writes them.
Below(w, n) == ~w.nan /\ w.v < n

Above(w, n) == ~w.nan /\ w.v > n

Within(w, lo, hi) == ~w.nan /\ lo <= w.v /\ w.v <= hi

\* C1: a write w to MySeverity with w < 100 or w > 1000 returns
\* BadOutOfRange, leaves the stored counter as it was before the call and
\* raises no event.
C1_RejectedWrite ==
    [][(op'.name = "mySeveritySet"
            /\ (Below(op'.arg, 100) \/ Above(op'.arg, 1000)))
        => (/\ op'.status = "BadOutOfRange"
            /\ count' = count
            /\ emitted' = << >>)]_vars

\* C1 witness: 1001 was refused after the counter had been moved by a tick.
C1_Witness ==
    /\ op = Op("mySeveritySet", Num(1001), "BadOutOfRange")
    /\ count = Num(150)
    /\ emitted = << >>

\* C2: a write w to MySeverity with 100 <= w <= 1000 returns Good and a
\* read that follows it with no tick in between returns exactly w.
C2_AcceptedWrite ==
    (op.name = "mySeveritySet" /\ Within(op.arg, 100, 1000))
        => (op.status = "Good" /\ mySeverityGet = op.arg)

\* C2 witness: the upper end of the range was written and is read back.
C2_Witness ==
    /\ op = Op("mySeveritySet", Num(1000), "Good")
    /\ mySeverityGet = Num(1000)

\* C3: after every tick of the event task the counter lies in [100, 1000],
\* and when the pre-tick value + 50 exceeds 1000 the post-tick value is
\* exactly 100, whatever writes to MySeverity were accepted or refused
\* before.
C3_SawtoothBound ==
    [][op'.name = "eventTick"
        => (/\ Within(count', 100, 1000)
            /\ (Above(NumAdd(count, Num(50)), 1000) => count' = Num(100)))]_vars

\* The two states of the condition, told by the message text.
CondIsGood == cond.message = "MyCondition is Good!"

CondIsBad == cond.message = "MyCondition is Bad!"

\* C4: from the initial state Good the states seen before tick 1 and after
\* each condition tick are Good, Bad, Good, Bad, ...; every tick flips the
\* state, and severity rises from 150 to 800 exactly on the Good -> Bad
\* ticks and falls back exactly on the Bad -> Good ticks.
C4_Alternation ==
    /\ [](IF condTicks % 2 = 0 THEN CondIsGood ELSE CondIsBad)
    /\ [][op'.name = "condTick"
            => (/\ condTicks' = condTicks + 1
                /\ CondIsGood' = ~CondIsGood
                /\ CondIsBad' = ~CondIsBad
                /\ (cond.severity = 150 /\ cond'.severity = 800)
                       = (CondIsGood /\ CondIsBad')
                /\ (cond.severity = 800 /\ cond'.severity = 150)
                       = (CondIsBad /\ CondIsGood'))]_vars

\* C4 witness: three ticks have run and the condition is Bad.
C4_Witness == condTicks = 3 /\ CondIsBad /\ cond.severity = 800

\* C5 as stated: created with message "Good!", severity 150, retain true;
\* after one tick "Bad!", 800, retain true, timestamp refreshed; after two
\* ticks "Good!" and 150.
C5_ScenarioAsStated ==
    /\ condTicks = 0
        => cond.message = "Good!" /\ cond.severity = 150 /\ cond.retain
    /\ condTicks = 1
        => (/\ cond.message = "Bad!" /\ cond.severity = 800 /\ cond.retain
            /\ cond.time = clock /\ cond.time > 0)
    /\ condTicks = 2
        => cond.message = "Good!" /\ cond.severity = 150

\* C5 amended: the texts are "MyCondition is Good!" and "MyCondition is
\* Bad!".  Created with "MyCondition is Good!", severity 150, retain true;
\* after one tick "MyCondition is Bad!", 800, retain true and the time is
\* the time of that tick; after two ticks "MyCondition is Good!" and 150.
C5_Scenario ==
    /\ condTicks = 0
        => (/\ cond.message = "MyCondition is Good!"
            /\ cond.severity = 150 /\ cond.retain
            /\ cond.time = 0)
    /\ condTicks = 1
        => (/\ cond.message = "MyCondition is Bad!"
            /\ cond.severity = 800 /\ cond.retain
            /\ cond.time = clock /\ cond.time >= 15000)
    /\ condTicks = 2
        => (/\ cond.message = "MyCondition is Good!"
            /\ cond.severity = 150)

\* C5 witness: the second tick has just run, at least 30 s after creation.
C5_Witness ==
    /\ condTicks = 2 /\ op.name = "condTick"
    /\ cond.message = "MyCondition is Good!" /\ cond.severity = 150
    /\ cond.time >= 30000

\* C6: in every reachable state the message is the good text iff severity
\* is 150 and the bad text iff severity is 800.
C6_MessageSeverityConsistent ==
    /\ CondIsGood <=> cond.severity = 150
    /\ CondIsBad <=> cond.severity = 800
    /\ CondIsGood \/ CondIsBad

\* C6 witness: the condition went Bad and back to Good and another task
\* ticked afterwards.
C6_Witness ==
    /\ condTicks = 2 /\ op.name = "eventTick"
    /\ CondIsGood /\ cond.severity = 150

\* C7: retain of the condition is true after creation and after any
\* sequence of ticks; retain of the limit alarm is true once armed and no
\* tick of any task changes it.
C7_RetainFixed ==
    /\ [](cond.retain = TRUE /\ alarm.retain = TRUE)
    /\ [][cond'.retain = cond.retain /\ alarm'.retain = alarm.retain]_vars

\* C7 witness: the condition has flipped twice and the ramp has ticked.
C7_Witness ==
    /\ condTicks >= 2 /\ op.name = "rampTick"
    /\ cond.retain /\ alarm.retain

\* The band the claim gives a value, with the thresholds -5, 20, 40, 50.
BandOf(v) ==
    CASE v < -5 -> "LowLow"
      [] -5 <= v /\ v < 20 -> "Low"
      [] 20 <= v /\ v <= 40 -> "Normal"
      [] 40 < v /\ v <= 50 -> "High"
      [] v > 50 -> "HighHigh"

\* C8: the alarm is configured with lowlow = -5, low = 20, high = 40,
\* highhigh = 50, ordered lowlow <= low <= high <= highhigh and changed by
\* no tick; with them -10, 0, 30, 45, 60 classify as LowLow, Low, Normal,
\* High, HighHigh, and every value of the input falls in the band the five
\* intervals of the claim give it.
C8_Classification ==
    /\ alarm.lowLowLimit = -5 /\ alarm.lowLimit = 20
    /\ alarm.highLimit = 40 /\ alarm.highHighLimit = 50
    /\ alarm.lowLowLimit <= alarm.lowLimit
    /\ alarm.lowLimit <= alarm.highLimit
    /\ alarm.highLimit <= alarm.highHighLimit
    /\ classify(-10, alarm) = "LowLow"
    /\ classify(0, alarm) = "Low"
    /\ classify(30, alarm) = "Normal"
    /\ classify(45, alarm) = "High"
    /\ classify(60, alarm) = "HighHigh"
    /\ \A v \in -30 .. 65 : classify(v, alarm) = BandOf(v)
    /\ alarmBand = BandOf(myVarGet)

\* C8 witness: the ramp has carried the input into the High band.
C8_Witness == op.name = "rampTick" /\ myVarGet = 45 /\ alarmBand = "High"

\* C9: MyVar starts at 25; each ramp tick adds 1 and replaces a result of
\* 60 or more by -25 on that same tick; the value a reader sees always lies
\* in [-25, 59]; no write request to MyVar changes the value.
C9_Ramp ==
    /\ myVarGet = 25
    /\ [](myVarGet \in -25 .. 59)
    /\ [][op'.name = "rampTick"
            => myValue' = (IF myValue + 1 >= 60 THEN -25 ELSE myValue + 1)]_vars
    /\ [][op'.name = "myVarSet" => myVarGet' = myVarGet]_vars

\* C9 witness: the ramp has wrapped to -25 and a write of 60 to MyVar was
\* refused.
C9_Witness ==
    /\ op.name = "myVarSet" /\ op.arg = Num(60)
    /\ myVarGet = -25

\* C10 as stated: MySeverity and MyVar are both served by a getter, and no
\* external write to either, in range or not, changes the value a read
\* returns.
C10_GetterReadOnlyAsStated ==
    [][op'.name \in {"mySeveritySet", "myVarSet"}
        => (mySeverityGet' = mySeverityGet /\ myVarGet' = myVarGet)]_vars

\* C10 amended: a variable served by a getter and no setter (MyVar) is
\* read-only for external writers: no write changes the value a read
\* returns.  MySeverity is served by a getter and a setter: a write w with
\* w < 100 or w > 1000 leaves the value a read returns unchanged and every
\* other write makes a read return w.
C10_GetterOnlyReadOnly ==
    [][/\ op'.name = "myVarSet"
            => (myVarGet' = myVarGet /\ mySeverityGet' = mySeverityGet)
       /\ op'.name = "mySeveritySet"
            => (/\ myVarGet' = myVarGet
                /\ mySeverityGet' =
                       (IF Below(op'.arg, 100) \/ Above(op'.arg, 1000)
                        THEN mySeverityGet ELSE op'.arg))]_vars

\* C10 witness: MyVar kept its value through a write of 0 after MySeverity
\* had taken a written value.
C10_Witness ==
    /\ op = Op("myVarSet", Num(0), "BadNotWritable")
    /\ mySeverityGet = Num(975)
    /\ myVarGet = 26

----------------------------------------------------------------------------
(* Claims on the machine-tool logic                                        *)

\* C11: the generator starts at 50; each tick adds 5 and resets to exactly
\* 50 when the result exceeds 120, then writes the result to the stored
\* FeedOverride variable: after every generator tick the stored value
\* equals the internal counter and lies in [50, 120], also when an external
\* write changed the stored value between two ticks.
C11_OverrideGenerator ==
    /\ override = 50
    /\ [](override \in 50 .. 120)
    /\ []((op.name = "overrideTick" /\ FeedOverrideId \in present)
            => (node[FeedOverrideId] = override
                /\ node[FeedOverrideId] \in 50 .. 120))
    /\ [][op'.name = "overrideTick"
            => override' = (IF override + 5 > 120 THEN 50 ELSE override + 5)]_vars

\* C11 witness: a tick has wrapped the generator to 50 and the stored
\* value is 50 too.
C11_Witness ==
    /\ op.name = "overrideTick"
    /\ override = 50
    /\ FeedOverrideId \in present
    /\ node[FeedOverrideId] = 50

\* The node a tick handler looks up and then uses without `?.`.
TickLookup(name) ==
    CASE name = "programTick" -> CurrentStateNumberId
      [] name = "machineryTick" -> MachineryItemStateNumberId
      [] name = "overrideTick" -> FeedOverrideId

\* C12: when a node lookup inside a tick handler yields no handle, the
\* task skips that tick, no exception leaves the handler, the process is
\* not crashed and the state of the other tasks is unaffected.
C12_TickFailureContained ==
    [][(/\ op'.name \in {"programTick", "machineryTick", "overrideTick"}
        /\ TickLookup(op'.name) \notin present)
        => (/\ op'.status # "TypeError"
            /\ proc' = "running"
            /\ node' = node /\ override' = override
            /\ ownVars' = ownVars)]_vars

\* Identifiers each start-up function resolves.
OwnStartupIds == {SoftwareTypeId}

MTStartupIds ==
    {ActiveProgramNameId, ActiveProgramNumberInListId, CurrentStateId,
     SpindleOverrideId, SpindleOverrideRangeId, Channel1Id}

OwnTasks == {"event", "ramp", "cond"}

MTTasks == {"program", "machinery", "override"}

\* C13 as stated: when an identifier resolved during start-up is not
\* found, start-up halts and no periodic task is started.
C13_StartupFatalAsStated ==
    /\ ~(OwnStartupIds \subseteq present)
        => (boot.own # "returned" /\ started \cap OwnTasks = {})
    /\ ~(MTStartupIds \subseteq present)
        => (boot.mt # "returned" /\ started \cap MTTasks = {})

\* C13 amended: a missing identifier does not halt start-up.  Every
\* start-up lookup but Channel1 goes through `?.`: when ActiveProgramName
\* 55186, ActiveProgramNumberInList 55185, CurrentState 55188,
\* SpindleOverride 55238, its range 55240 or the DI SoftwareType 15106 is
\* not found, only the write to that node is skipped, the start-up function
\* returns and its periodic tasks are started.  Only a missing Channel1
\* 55233 throws, and the three machine-tool tasks are registered by then.
C13_StartupTolerant ==
    /\ boot.own # "pending"
        => (/\ boot.own = "returned"
            /\ OwnTasks \subseteq started
            /\ boot.software = (SoftwareTypeId \in present))
    /\ boot.mt # "pending"
        => (/\ MTTasks \subseteq started
            /\ (boot.mt = "threw") = (Channel1Id \notin present)
            /\ (boot.mt = "returned") = (Channel1Id \in present)
            /\ ActiveProgramNameId \in present
                => node[ActiveProgramNameId] = "Program_1"
            /\ SpindleOverrideId \in present
                => node[SpindleOverrideId] = 100
            /\ Channel1Id \in present => node[Channel1Id] = 1)

\* C13 witness: ActiveProgramName was not found, start-up returned all the
\* same and a machine-tool task has ticked.
C13_Witness ==
    /\ ActiveProgramNameId \notin present
    /\ boot.mt = "returned"
    /\ op = Op("programTick", NoArg, "None")

\* The text and the number of a state, when both nodes are found.
StateAgrees(stateId, numberId, first, second) ==
    \/ node[stateId].text = first /\ node[numberId] = [namespace |-> 0, value |-> 1]
    \/ node[stateId].text = second /\ node[numberId] = [namespace |-> 0, value |-> 2]

Alternates(stateId, first, second) ==
    /\ node'[stateId].text \in {first, second}
    /\ node[stateId].text \in {first, second}
        => node'[stateId].text # node[stateId].text

\* C17: after every tick of a toggler the state text and the state number
\* agree (Running or Executing with 1, Ended or NotExecuting with 2), and
\* the text alternates between its two values from the first tick on,
\* whatever it was before.
C17_Togglers ==
    /\ []((op.name = "programTick"
            /\ {CurrentStateId, CurrentStateNumberId} \subseteq present)
          => StateAgrees(CurrentStateId, CurrentStateNumberId,
                         "Running", "Ended"))
    /\ []((op.name = "machineryTick"
            /\ {MachineryItemStateId, MachineryItemStateNumberId} \subseteq present)
          => StateAgrees(MachineryItemStateId, MachineryItemStateNumberId,
                         "Executing", "NotExecuting"))
    /\ [][(op'.name = "programTick" /\ CurrentStateId \in present)
            => Alternates(CurrentStateId, "Running", "Ended")]_vars
    /\ [][(op'.name = "machineryTick" /\ MachineryItemStateId \in present)
            => Alternates(MachineryItemStateId, "Executing", "NotExecuting")]_vars

\* C17 witness: MachineryItemState has been toggled to NotExecuting with
\* number 2 while CurrentState is Ended with number 2.
C17_Witness ==
    /\ op.name = "machineryTick"
    /\ present = AllNodes
    /\ node[MachineryItemStateId].text = "NotExecuting"
    /\ node[MachineryItemStateNumberId].value = 2
    /\ node[CurrentStateId].text = "Ended"
    /\ node[CurrentStateNumberId].value = 2

\* The state each periodic task owns.
Owned(t) ==
    CASE t = "event" -> <<count>>
      [] t = "ramp" -> <<myValue>>
      [] t = "cond" -> <<cond, clock, condTicks>>
      [] t = "program" -> <<node[CurrentStateId], node[CurrentStateNumberId]>>
      [] t = "machinery" ->
            <<node[MachineryItemStateId], node[MachineryItemStateNumberId]>>
      [] t = "override" -> <<override, node[FeedOverrideId]>>

TickOf(t) ==
    CASE t = "event" -> "eventTick"
      [] t = "ramp" -> "rampTick"
      [] t = "cond" -> "condTick"
      [] t = "program" -> "programTick"
      [] t = "machinery" -> "machineryTick"
      [] t = "override" -> "overrideTick"

\* C14: under any interleaving of the six periodic tasks, a tick of one
\* task leaves the state owned by every other task unchanged, so no
\* variable is mutated by two tasks; what no task owns is never changed.
C14_DisjointOwnership ==
    [][/\ \A t \in AllTasks :
            op'.name # TickOf(t) => Owned(t)' = Owned(t)
       /\ alarm' = alarm
       /\ \A id \in {ActiveProgramNameId, ActiveProgramNumberInListId,
                     SpindleOverrideId, SpindleOverrideRangeId, Channel1Id} :
            node'[id] = node[id]]_vars

\* C14 witness: each of the six tasks has ticked once.
C14_Witness ==
    /\ count = Num(150)
    /\ myValue = 26
    /\ condTicks = 1
    /\ node[CurrentStateId].text = "Ended"
    /\ node[MachineryItemStateId].text = "NotExecuting"
    /\ override = 55

----------------------------------------------------------------------------
(* Claims on the events raised and on the alarm's input                    *)

\* C15: every condition tick raises exactly one condition notification,
\* raised after severity, message and time were updated in that tick: its
\* snapshot carries the post-flip message and severity, never the pre-tick
\* ones, and it is tagged as a new-state transition.
C15_ConditionEvent ==
    /\ [](op.name = "condTick"
            => (/\ Len(emitted) = 1
                /\ emitted[1].type = "ownConditionEventType"
                /\ emitted[1].message = cond.message
                /\ emitted[1].severity = cond.severity
                /\ emitted[1].time = cond.time
                /\ emitted[1].renewEventId = TRUE))
    /\ [][op'.name = "condTick"
            => (/\ emitted'[1].message # cond.message
                /\ emitted'[1].severity # cond.severity
                /\ emitted'[1].time > cond.time)]_vars

\* C15 witness: the first tick raised the Bad snapshot.
C15_Witness ==
    /\ op.name = "condTick" /\ condTicks = 1
    /\ Len(emitted) = 1
    /\ emitted[1].message = "MyCondition is Bad!"
    /\ emitted[1].severity = 800

\* C16: every tick of the event task raises exactly one DemoEvent whose
\* severity equals the post-tick counter, lies in [100, 1000] and is named
\* by the message; a read of MySeverity right after the tick returns it;
\* after an accepted write w with no tick in between it is w + 50 if
\* w + 50 <= 1000 and 100 otherwise.
C16_EventSeverity ==
    [][op'.name = "eventTick"
        => (/\ Len(emitted') = 1
            /\ emitted'[1].type = "DemoEventType"
            /\ emitted'[1].severity = count'
            /\ Within(emitted'[1].severity, 100, 1000)
            /\ emitted'[1].message = [text |-> "Severity at: ",
                                      n |-> emitted'[1].severity]
            /\ mySeverityGet' = emitted'[1].severity
            /\ (op.name = "mySeveritySet" /\ op.status = "Good")
                => emitted'[1].severity =
                       (IF ~op.arg.nan /\ op.arg.v + 50 <= 1000
                        THEN Num(op.arg.v + 50) ELSE Num(100)))]_vars

Bands == {"LowLow", "Low", "Normal", "High", "HighHigh"}

BandSuccessor ==
    {<<"Normal", "High">>, <<"High", "HighHigh">>, <<"HighHigh", "LowLow">>,
     <<"LowLow", "Low">>, <<"Low", "Normal">>}

\* C18: under fair ticking of the ramp the alarm's input visits each of
\* the five bands infinitely often, in the cyclic order Normal, High,
\* HighHigh, LowLow, Low, Normal, ...: the alarm is neither active for ever
\* nor inactive for ever, and HighHigh is left for LowLow in one tick.
C18_BandCycle ==
    /\ alarmBand = "Normal"
    /\ \A b \in Bands : []<>(alarmBand = b)
    /\ [][alarmBand' # alarmBand
            => (op'.name = "rampTick"
                /\ <<alarmBand, alarmBand'>> \in BandSuccessor)]_vars

\* C18 witness: a ramp tick has taken the input from HighHigh to LowLow.
C18_Witness ==
    /\ op.name = "rampTick"
    /\ myVarGet = -25
    /\ alarmBand = "LowLow"

----------------------------------------------------------------------------
(* Claims on user.ts                                                       *)

\* Entries of the user list with a given username.
Entries(u) == {k \in 1 .. Len(userList) : userList[k].username = u}

\* C19: the callback of every call of isValidUserAsync is eventually
\* invoked, exactly once, with a null error; with true only if exactly one
\* entry has the username and the comparison for that entry yields true;
\* with false when the username is unknown, occurs more than once, or the
\* comparison fails or errors.
C19_Callback ==
    /\ \A i \in 1 .. MaxCalls :
        (Len(calls) >= i) ~> (Len(calls) >= i /\ Len(calls[i].cb) = 1)
    /\ [](\A i \in DOMAIN calls :
            LET c == calls[i]
                n == Cardinality(Entries(c.username))
            IN  /\ Len(c.cb) <= 1
                /\ Len(c.cb) = 1
                    => (/\ c.cb[1].err = "null"
                        /\ c.cb[1].isAuthorized = TRUE
                            => (/\ n = 1
                                /\ c.outcome.result = "true"
                                /\ \E k \in Entries(c.username) :
                                      /\ userList[k].password.valid
                                      /\ userList[k].password.of = c.password)
                        /\ (n = 0 \/ n > 1 \/ c.outcome.err
                                \/ c.outcome.result # "true")
                            => c.cb[1].isAuthorized = FALSE))
    /\ [][\A i \in DOMAIN calls :
            Len(calls[i].cb) = 1 => calls'[i].cb = calls[i].cb]_vars

\* C19 witness: with alice listed twice and bob once, alice was refused at
\* once and bob, whose hash matches, was let in.
C19_Witness ==
    /\ Len(calls) = 2
    /\ Cardinality(Entries("alice")) = 2
    /\ calls[1].username = "alice"
    /\ calls[1].cb = << [err |-> "null", isAuthorized |-> FALSE] >>
    /\ calls[2].username = "bob"
    /\ calls[2].cb = << [err |-> "null", isAuthorized |-> TRUE] >>

====
